---------------------------- MODULE Spec2Model ----------------------------
(***************************************************************************)
(* A model of src/ln/peer_channel_encryptor.rs: the BOLT-8 Noise_XK        *)
(* handshake of PeerChannelEncryptor and the transport cipher of its       *)
(* Finished state.                                                         *)
(*                                                                         *)
(* The external primitives (SHA-256, HMAC-SHA-256, secp256k1 and           *)
(* ChaCha20-Poly1305) are modelled symbolically: a hash or a MAC is the    *)
(* term of its inputs, an ECDH secret is the unordered pair of the two     *)
(* scalars, and an AEAD output verifies under exactly the key, nonce and   *)
(* associated data it was produced with.  Byte strings are terms whose     *)
(* first element is a tag, so that any two of them can be compared.        *)
(***************************************************************************)
EXTENDS Integers, Sequences, FiniteSets, TLC

VARIABLES
    enc,       \* the two PeerChannelEncryptor values, by peer
    acts,      \* the handshake acts emitted so far, each <<>> or <<act>>
    net,       \* the frame parts in flight, by receiving peer
    lastCall,  \* the last call made on an encryptor and what it returned
    hist       \* per peer: calls applied and AEAD operations done so far

vars == <<enc, acts, net, lastCall, hist>>

Peers == {"I", "R"}

Other(p) == IF p = "I" THEN "R" ELSE "I"

-----------------------------------------------------------------------------
(* Bounds of the model.                                                    *)

\* Messages the sending peer encrypts at most.
MaxSend == 1001

\* Messages the sending peer encrypts at most where only the handshake and
\* the start of the transport are looked at.
MaxLiveSend == 12

\* Frame parts (length headers and payloads) in flight to one peer at most.
MaxInFlight == 2

\* Messages the sending peer encrypts at most where the inputs of the calls
\* are what is looked at: acts and frame parts of any content and length.
MaxInputSend == 3

\* Frame parts in flight to one peer at most in that case.
MaxWindow == 4

\* Messages the sending peer encrypts at most where the order of the frame
\* parts is what is looked at: enough to rotate the key once.
MaxOrderSend == 501

\* Messages one peer encrypts at most where both peers send: enough to
\* rotate its key once.
MaxDuplexSend == 501

\* Messages the other peer encrypts at most meanwhile.
MaxDuplexReply == 1

\* Frame parts made by a peer that holds the session keys but does not run
\* this encryptor, accepted by the receiving peer at most.
MaxCrafted == 1002

-----------------------------------------------------------------------------
(* Byte strings and the external primitives.                               *)

Nil == <<"nil">>

\* [0; 0], the empty byte string.
Empty == <<"bytes", 0, 0>>

\* A message of len bytes with contents id.
Bytes(len, id) == <<"bytes", len, id>>

NOISE_CK == <<"NOISE_CK">>

NOISE_H == <<"NOISE_H">>

\* Secret keys are scalars; 0 is no scalar.
INITIATOR_STATIC == 17

INITIATOR_EPHEMERAL == 18

RESPONDER_STATIC == 33

RESPONDER_EPHEMERAL == 34

\* PublicKey::from_secret_key
from_secret_key(sk) == <<"pub", sk>>

\* PublicKey::serialize: the 33 bytes of the compressed point.
serialize(pk) == <<"point", pk[2]>>

\* PublicKey::from_slice: the point of 33 bytes, or an error.
from_slice(bytes) ==
    IF bytes[1] = "point" /\ bytes[2] # 0
    THEN [ok |-> TRUE, key |-> <<"pub", bytes[2]>>]
    ELSE [ok |-> FALSE, key |-> Nil]

\* SharedSecret::new(point, scalar)
SharedSecret(their_key, our_key) == <<"ss", {their_key[2], our_key}>>

\* Sha256 of the concatenation a || b.
Sha256(a, b) == <<"sha256", a, b>>

\* Hmac<Sha256> under key of the concatenation of the inputs.
Hmac(key, data) == <<"hmac", key, data>>

\* byte_utils::be16_to_array
be16_to_array(u) == <<"be16", (u \div 256) % 256, u % 256>>

\* byte_utils::slice_to_be16 of two bytes.
slice_to_be16(b) == IF b[1] = "be16" THEN b[2] * 256 + b[3] ELSE b[3] % 65536

\* The length in bytes of a byte string.
BytesLen(b) ==
    CASE b[1] = "bytes" -> b[2]
      [] b[1] = "be16" -> 2
      [] b[1] = "point" -> 33
      [] OTHER -> 32

-----------------------------------------------------------------------------
(* The AEAD and HKDF helpers.                                              *)

\* ChaCha20Poly1305RFC under (key, nonce n, associated data h): the
\* ciphertext of plaintext followed by its 16-byte tag.  The last element is
\* FALSE once a bit of the ciphertext or of its tag has been changed.
encrypt_with_ad(n, key, h, plaintext) == <<"aead", key, n, h, plaintext, TRUE>>

\* msg.len() of what a decrypting call is given: a ciphertext with its tag,
\* or bytes too few to hold a tag.
CipherLen(c) == IF c[1] = "aead" THEN BytesLen(c[5]) + 16 ELSE BytesLen(c)

\* A ciphertext with one bit flipped.
Corrupt(c) == <<"aead", c[2], c[3], c[4], c[5], FALSE>>

\* An AEAD whose tag does not depend on the nonce.
TagVerifiesUnderAnyNonce(n, key, h, cyphertext) ==
    /\ cyphertext[6]
    /\ cyphertext[2] = key
    /\ cyphertext[4] = h

\* chacha.decrypt: the tag verifies under the key, nonce and associated
\* data the ciphertext was made with, and under no other.
TagVerifies(n, key, h, cyphertext) ==
    /\ cyphertext[6]
    /\ cyphertext[3] = n
    /\ cyphertext[2] = key
    /\ cyphertext[4] = h

\* The action of a HandleError: Some(ErrorAction::DisconnectPeer { msg: None }),
\* and what stands for it where a call returns no HandleError.
DisconnectPeer == <<"Some", "DisconnectPeer", "None">>

NoAction == <<"no HandleError">>

\* decrypt_with_ad returning a HandleError that recommends no action.
decrypt_with_ad_without_action(n, key, h, cyphertext) ==
    IF TagVerifies(n, key, h, cyphertext)
    THEN [ok |-> TRUE, err |-> "", action |-> NoAction, res |-> cyphertext[5]]
    ELSE [ok |-> FALSE, err |-> "Bad MAC", action |-> <<"None">>, res |-> Nil]

\* decrypt_with_ad not looking at what chacha.decrypt returns.
decrypt_with_ad_unchecked(n, key, h, cyphertext) ==
    [ok |-> TRUE, err |-> "", action |-> NoAction, res |-> cyphertext[5]]

decrypt_with_ad(n, key, h, cyphertext) ==
    IF TagVerifies(n, key, h, cyphertext)
    THEN [ok |-> TRUE, err |-> "", action |-> NoAction, res |-> cyphertext[5]]
    ELSE [ok |-> FALSE, err |-> "Bad MAC", action |-> DisconnectPeer, res |-> Nil]

hkdf_extract_expand(salt, ikm) ==
    LET prk == Hmac(salt, ikm)
        t1 == Hmac(prk, Bytes(1, 1))
        t2 == Hmac(prk, <<"cat", t1, Bytes(1, 2)>>)
    IN  <<t1, t2>>

\* hkdf: state.ck becomes the first output, the second is returned.
hkdf(state, ss) ==
    LET t == hkdf_extract_expand(state.ck, ss)
    IN  [state |-> [state EXCEPT !.ck = t[1]], temp_k |-> t[2]]

\* A 50-byte act: the version byte, 33 bytes of point, a 16-byte tag.  An
\* act read from the network may be longer or shorter by pad bytes.
Act50(version, point, tag) ==
    [version |-> version, point |-> point, tag |-> tag, pad |-> 0]

\* A 66-byte act: the version byte, the 49 bytes of the encrypted static
\* key, a 16-byte tag.
Act66(version, c, tag) == [version |-> version, c |-> c, tag |-> tag, pad |-> 0]

\* act.len() of an act of either size.
ActLen(act) ==
    1 + CipherLen(act.tag) + act.pad
      + (IF "point" \in DOMAIN act THEN BytesLen(act.point) ELSE CipherLen(act.c))

\* outbound_noise_act writing 1 for the version byte.
outbound_noise_act_version_one(state, our_key, their_key) ==
    LET our_pub == from_secret_key(our_key)
        s1 == [state EXCEPT !.h = Sha256(state.h, serialize(our_pub))]
        mixed == hkdf(s1, SharedSecret(their_key, our_key))
        tag == encrypt_with_ad(0, mixed.temp_k, mixed.state.h, Empty)
    IN  [state |-> [mixed.state EXCEPT !.h = Sha256(mixed.state.h, tag)],
         res |-> Act50(1, serialize(our_pub), tag),
         temp_k |-> mixed.temp_k]

outbound_noise_act(state, our_key, their_key) ==
    LET our_pub == from_secret_key(our_key)
        s1 == [state EXCEPT !.h = Sha256(state.h, serialize(our_pub))]
        ss == SharedSecret(their_key, our_key)
        mixed == hkdf(s1, ss)
        s2 == mixed.state
        temp_k == mixed.temp_k
        tag == encrypt_with_ad(0, temp_k, s2.h, Empty)
        res == Act50(0, serialize(our_pub), tag)
        s3 == [s2 EXCEPT !.h = Sha256(s2.h, tag)]
    IN  [state |-> s3, res |-> res, temp_k |-> temp_k]

\* inbound_noise_act parsing the point before it looks at the version byte.
inbound_noise_act_parsing_first(state, act, our_key) ==
    IF ActLen(act) # 50
    THEN [panic |-> TRUE, ok |-> FALSE, err |-> "panic", action |-> NoAction,
          state |-> state, their_pub |-> Nil, temp_k |-> Nil]
    ELSE
    LET parsed == from_slice(act.point) IN
    IF ~parsed.ok
    THEN [panic |-> FALSE, ok |-> FALSE, err |-> "Invalid public key",
          action |-> DisconnectPeer,
          state |-> state, their_pub |-> Nil, temp_k |-> Nil]
    ELSE
    IF act.version # 0
    THEN [panic |-> FALSE, ok |-> FALSE, err |-> "Unknown handshake version number",
          action |-> DisconnectPeer,
          state |-> state, their_pub |-> Nil, temp_k |-> Nil]
    ELSE
    LET their_pub == parsed.key
        s1 == [state EXCEPT !.h = Sha256(state.h, serialize(their_pub))]
        mixed == hkdf(s1, SharedSecret(their_pub, our_key))
        s2 == mixed.state
        dec == decrypt_with_ad(0, mixed.temp_k, s2.h, act.tag)
    IN  IF ~dec.ok
        THEN [panic |-> FALSE, ok |-> FALSE, err |-> dec.err, action |-> dec.action,
              state |-> s2, their_pub |-> Nil, temp_k |-> Nil]
        ELSE [panic |-> FALSE, ok |-> TRUE, err |-> "", action |-> NoAction,
              state |-> [s2 EXCEPT !.h = Sha256(s2.h, act.tag)],
              their_pub |-> their_pub, temp_k |-> mixed.temp_k]

inbound_noise_act(state, act, our_key) ==
    IF ActLen(act) # 50
    THEN [panic |-> TRUE, ok |-> FALSE, err |-> "panic", action |-> NoAction,
          state |-> state, their_pub |-> Nil, temp_k |-> Nil]
    ELSE
    IF act.version # 0
    THEN [panic |-> FALSE, ok |-> FALSE, err |-> "Unknown handshake version number",
          action |-> DisconnectPeer,
          state |-> state, their_pub |-> Nil, temp_k |-> Nil]
    ELSE
    LET parsed == from_slice(act.point) IN
    IF ~parsed.ok
    THEN [panic |-> FALSE, ok |-> FALSE, err |-> "Invalid public key",
          action |-> DisconnectPeer,
          state |-> state, their_pub |-> Nil, temp_k |-> Nil]
    ELSE
    LET their_pub == parsed.key
        s1 == [state EXCEPT !.h = Sha256(state.h, serialize(their_pub))]
        ss == SharedSecret(their_pub, our_key)
        mixed == hkdf(s1, ss)
        s2 == mixed.state
        temp_k == mixed.temp_k
        dec == decrypt_with_ad(0, temp_k, s2.h, act.tag)
    IN  IF ~dec.ok
        THEN [panic |-> FALSE, ok |-> FALSE, err |-> dec.err, action |-> dec.action,
              state |-> s2, their_pub |-> Nil, temp_k |-> Nil]
        ELSE [panic |-> FALSE, ok |-> TRUE, err |-> "", action |-> NoAction,
              state |-> [s2 EXCEPT !.h = Sha256(s2.h, act.tag)],
              their_pub |-> their_pub, temp_k |-> temp_k]

-----------------------------------------------------------------------------
(* PeerChannelEncryptor<T>: the typestate T is the field step, and a value *)
(* that a call has taken by value is Consumed.                             *)

NoFinished == [sk |-> Nil, sn |-> 0, sck |-> Nil, rk |-> Nil, rn |-> 0, rck |-> Nil]

Consumed ==
    [dir |-> "", step |-> "Consumed", directional_state |-> Nil,
     bidirectional_state |-> Nil, noise_state |-> NoFinished]

InProgress(dir, step, directional_state, bidirectional_state) ==
    [dir |-> dir, step |-> step, directional_state |-> directional_state,
     bidirectional_state |-> bidirectional_state, noise_state |-> NoFinished]

Finished(dir, noise_state) ==
    [dir |-> dir, step |-> "Finished", directional_state |-> Nil,
     bidirectional_state |-> Nil, noise_state |-> noise_state]

new_outbound(their_node_id, ephemeral_key) ==
    InProgress("Outbound", "PreActOne",
               [ie |-> ephemeral_key, their_node_id |-> their_node_id],
               [h |-> Sha256(NOISE_H, serialize(their_node_id)), ck |-> NOISE_CK])

\* new_inbound with the handshake hash left at its protocol constant.
new_inbound_without_static(our_node_secret) ==
    InProgress("Inbound", "PreActOne", Nil, [h |-> NOISE_H, ck |-> NOISE_CK])

new_inbound(our_node_secret) ==
    InProgress("Inbound", "PreActOne", Nil,
               [h |-> Sha256(NOISE_H, serialize(from_secret_key(our_node_secret))),
                ck |-> NOISE_CK])

\* get_act_one returning an encryptor that is still before act one.
get_act_one_without_advance(self) ==
    LET out == outbound_noise_act(self.bidirectional_state,
                                  self.directional_state.ie,
                                  self.directional_state.their_node_id)
    IN  [next |-> InProgress("Outbound", "PreActOne",
                             self.directional_state, out.state),
         res |-> out.res]

get_act_one(self) ==
    LET out == outbound_noise_act(self.bidirectional_state,
                                  self.directional_state.ie,
                                  self.directional_state.their_node_id)
    IN  [next |-> InProgress("Outbound", "PostActOne",
                             self.directional_state, out.state),
         res |-> out.res]

\* process_act_one_with_keys borrowing the encryptor: a failed call leaves it
\* to the caller as it was.
process_act_one_with_keys_by_reference(self, act_one, our_node_secret, our_ephemeral) ==
    LET in == inbound_noise_act(self.bidirectional_state, act_one, our_node_secret) IN
    IF ~in.ok
    THEN [panic |-> in.panic, ok |-> FALSE, err |-> in.err, action |-> in.action,
          next |-> self, res |-> Nil]
    ELSE
    LET out == outbound_noise_act(in.state, our_ephemeral, in.their_pub)
        data == [ie |-> in.their_pub, re |-> our_ephemeral, temp_k2 |-> out.temp_k]
    IN  [panic |-> FALSE, ok |-> TRUE, err |-> "", action |-> NoAction,
         next |-> InProgress("Inbound", "PostActTwo", data, out.state),
         res |-> out.res]

process_act_one_with_keys(self, act_one, our_node_secret, our_ephemeral) ==
    IF ActLen(act_one) # 50
    THEN [panic |-> TRUE, ok |-> FALSE, err |-> "panic", action |-> NoAction,
          next |-> Consumed, res |-> Nil]
    ELSE
    LET in == inbound_noise_act(self.bidirectional_state, act_one, our_node_secret) IN
    IF ~in.ok
    THEN [panic |-> in.panic, ok |-> FALSE, err |-> in.err, action |-> in.action,
          next |-> Consumed, res |-> Nil]
    ELSE
    LET ie == in.their_pub
        re == our_ephemeral
        out == outbound_noise_act(in.state, re, ie)
        data == [ie |-> ie, re |-> re, temp_k2 |-> out.temp_k]
    IN  [panic |-> FALSE, ok |-> TRUE, err |-> "", action |-> NoAction,
         next |-> InProgress("Inbound", "PostActTwo", data, out.state),
         res |-> out.res]

\* The Finished state of the initiator: (sk, rk) are the two outputs of the
\* final HKDF, in this order.
initiator_finished(ck) ==
    LET final_hkdf == hkdf_extract_expand(ck, Empty)
    IN  [sk |-> final_hkdf[1], sn |-> 0, sck |-> ck,
         rk |-> final_hkdf[2], rn |-> 0, rck |-> ck]

process_act_two(self, act_two, our_node_secret) ==
    IF ActLen(act_two) # 50
    THEN [panic |-> TRUE, ok |-> FALSE, err |-> "panic", action |-> NoAction,
          next |-> Consumed, res |-> Nil, key |-> Nil]
    ELSE
    LET in == inbound_noise_act(self.bidirectional_state, act_two,
                                self.directional_state.ie) IN
    IF ~in.ok
    THEN [panic |-> in.panic, ok |-> FALSE, err |-> in.err, action |-> in.action,
          next |-> Consumed, res |-> Nil, key |-> Nil]
    ELSE
    LET re == in.their_pub
        temp_k2 == in.temp_k
        our_node_id == from_secret_key(our_node_secret)
        c == encrypt_with_ad(1, temp_k2, in.state.h, serialize(our_node_id))
        s1 == [in.state EXCEPT !.h = Sha256(in.state.h, c)]
        ss == SharedSecret(re, our_node_secret)
        mixed == hkdf(s1, ss)
        tag == encrypt_with_ad(0, mixed.temp_k, mixed.state.h, Empty)
    IN  [panic |-> FALSE, ok |-> TRUE, err |-> "", action |-> NoAction,
         next |-> Finished("Outbound", initiator_finished(mixed.state.ck)),
         res |-> Act66(0, c, tag),
         key |-> self.directional_state.their_node_id]

\* The responder taking the outputs of the final HKDF in the initiator's order.
responder_finished_unswapped(ck) ==
    LET final_hkdf == hkdf_extract_expand(ck, Empty)
    IN  [sk |-> final_hkdf[1], sn |-> 0, sck |-> ck,
         rk |-> final_hkdf[2], rn |-> 0, rck |-> ck]

\* The Finished state of the responder: (rk, sk) are the two outputs of the
\* final HKDF, the order of the initiator inverted.
responder_finished(ck) ==
    LET final_hkdf == hkdf_extract_expand(ck, Empty)
    IN  [sk |-> final_hkdf[2], sn |-> 0, sck |-> ck,
         rk |-> final_hkdf[1], rn |-> 0, rck |-> ck]

\* process_act_three without the test of the version byte.
process_act_three_any_version(self, act_three) ==
    IF ActLen(act_three) # 66
    THEN [panic |-> TRUE, ok |-> FALSE, err |-> "panic", action |-> NoAction,
          next |-> Consumed, key |-> Nil]
    ELSE
    LET dec == decrypt_with_ad(1, self.directional_state.temp_k2,
                               self.bidirectional_state.h, act_three.c) IN
    IF ~dec.ok
    THEN [panic |-> FALSE, ok |-> FALSE, err |-> dec.err, action |-> dec.action,
          next |-> Consumed, key |-> Nil]
    ELSE
    LET parsed == from_slice(dec.res) IN
    IF ~parsed.ok
    THEN [panic |-> FALSE, ok |-> FALSE, err |-> "Bad node_id from peer",
          action |-> DisconnectPeer, next |-> Consumed, key |-> Nil]
    ELSE
    LET s1 == [self.bidirectional_state EXCEPT
                 !.h = Sha256(self.bidirectional_state.h, act_three.c)]
        mixed == hkdf(s1, SharedSecret(parsed.key, self.directional_state.re))
        dec2 == decrypt_with_ad(0, mixed.temp_k, mixed.state.h, act_three.tag)
    IN  IF ~dec2.ok
        THEN [panic |-> FALSE, ok |-> FALSE, err |-> dec2.err, action |-> dec2.action,
              next |-> Consumed, key |-> Nil]
        ELSE [panic |-> FALSE, ok |-> TRUE, err |-> "", action |-> NoAction,
              next |-> Finished("Inbound", responder_finished(mixed.state.ck)),
              key |-> parsed.key]

\* process_act_three handing out the decrypted static key although the
\* final tag failed.
process_act_three_revealing_key(self, act_three) ==
    IF ActLen(act_three) # 66
    THEN [panic |-> TRUE, ok |-> FALSE, err |-> "panic", action |-> NoAction,
          next |-> Consumed, key |-> Nil]
    ELSE
    IF act_three.version # 0
    THEN [panic |-> FALSE, ok |-> FALSE, err |-> "Unknown handshake version number",
          action |-> DisconnectPeer, next |-> Consumed, key |-> Nil]
    ELSE
    LET dec == decrypt_with_ad(1, self.directional_state.temp_k2,
                               self.bidirectional_state.h, act_three.c) IN
    IF ~dec.ok
    THEN [panic |-> FALSE, ok |-> FALSE, err |-> dec.err, action |-> dec.action,
          next |-> Consumed, key |-> Nil]
    ELSE
    LET parsed == from_slice(dec.res) IN
    IF ~parsed.ok
    THEN [panic |-> FALSE, ok |-> FALSE, err |-> "Bad node_id from peer",
          action |-> DisconnectPeer, next |-> Consumed, key |-> Nil]
    ELSE
    LET s1 == [self.bidirectional_state EXCEPT
                 !.h = Sha256(self.bidirectional_state.h, act_three.c)]
        mixed == hkdf(s1, SharedSecret(parsed.key, self.directional_state.re))
        dec2 == decrypt_with_ad(0, mixed.temp_k, mixed.state.h, act_three.tag)
    IN  IF ~dec2.ok
        THEN [panic |-> FALSE, ok |-> FALSE, err |-> dec2.err, action |-> dec2.action,
              next |-> Consumed, key |-> parsed.key]
        ELSE [panic |-> FALSE, ok |-> TRUE, err |-> "", action |-> NoAction,
              next |-> Finished("Inbound", responder_finished(mixed.state.ck)),
              key |-> parsed.key]

process_act_three(self, act_three) ==
    IF ActLen(act_three) # 66
    THEN [panic |-> TRUE, ok |-> FALSE, err |-> "panic", action |-> NoAction,
          next |-> Consumed, key |-> Nil]
    ELSE
    IF act_three.version # 0
    THEN [panic |-> FALSE, ok |-> FALSE, err |-> "Unknown handshake version number",
          action |-> DisconnectPeer, next |-> Consumed, key |-> Nil]
    ELSE
    LET dec == decrypt_with_ad(1, self.directional_state.temp_k2,
                               self.bidirectional_state.h, act_three.c) IN
    IF ~dec.ok
    THEN [panic |-> FALSE, ok |-> FALSE, err |-> dec.err, action |-> dec.action,
          next |-> Consumed, key |-> Nil]
    ELSE
    LET parsed == from_slice(dec.res) IN
    IF ~parsed.ok
    THEN [panic |-> FALSE, ok |-> FALSE, err |-> "Bad node_id from peer",
          action |-> DisconnectPeer, next |-> Consumed, key |-> Nil]
    ELSE
    LET their_node_id == parsed.key
        s1 == [self.bidirectional_state EXCEPT
                 !.h = Sha256(self.bidirectional_state.h, act_three.c)]
        ss == SharedSecret(their_node_id, self.directional_state.re)
        mixed == hkdf(s1, ss)
        dec2 == decrypt_with_ad(0, mixed.temp_k, mixed.state.h, act_three.tag)
    IN  IF ~dec2.ok
        THEN [panic |-> FALSE, ok |-> FALSE, err |-> dec2.err, action |-> dec2.action,
              next |-> Consumed, key |-> Nil]
        ELSE [panic |-> FALSE, ok |-> TRUE, err |-> "", action |-> NoAction,
              next |-> Finished("Inbound", responder_finished(mixed.state.ck)),
              key |-> their_node_id]

-----------------------------------------------------------------------------
(* The transport cipher of PeerChannelEncryptor<Finished>.  Each operator  *)
(* returns the noise_state the call leaves behind, what the call returns,  *)
(* and aead, the AEAD operations it performed: the key and the nonce it    *)
(* passed, the counter before and after, and whether the tag verified.     *)

AeadOp(key, n, counter, after, ok) ==
    [key |-> key, n |-> n, counter |-> counter, after |-> after, ok |-> ok]

\* A counter stepping by two.
increment_by_two(n) == n + 2

\* *sn += 1 and *rn += 1
increment(n) == n + 1

\* The send key declared spent one operation late.
send_key_is_spent_late(sn) == sn > 1000

\* if *sn >= 1000
send_key_is_spent(sn) == sn >= 1000

\* The receive key declared spent one operation late.
recv_key_is_spent_late(rn) == rn > 1000

\* if *rn >= 1000
recv_key_is_spent(rn) == rn >= 1000

\* A rotation of the send key that leaves the counter where it was.
rotate_send_without_reset(ns) ==
    LET t == hkdf_extract_expand(ns.sck, ns.sk)
    IN  [ns EXCEPT !.sck = t[1], !.sk = t[2]]

\* A rotation of the send key that overwrites the receive key with it.
rotate_send_rotating_both(ns) ==
    LET t == hkdf_extract_expand(ns.sck, ns.sk)
    IN  [ns EXCEPT !.sck = t[1], !.sk = t[2], !.sn = 0,
                   !.rck = t[1], !.rk = t[2], !.rn = 0]

\* A rotation of the send key that replaces the chaining key and restarts
\* the counter, and keeps the key.
rotate_send_keeping_key(ns) ==
    LET t == hkdf_extract_expand(ns.sck, ns.sk)
    IN  [ns EXCEPT !.sck = t[1], !.sn = 0]

\* The rotation of the send key: (sck, sk) <- HKDF(sck, sk), sn <- 0.
rotate_send(ns) ==
    LET t == hkdf_extract_expand(ns.sck, ns.sk)
    IN  [ns EXCEPT !.sck = t[1], !.sk = t[2], !.sn = 0]

\* A rotation of the receive key that leaves the chaining key where it was.
rotate_recv_without_chaining(ns) ==
    LET t == hkdf_extract_expand(ns.rck, ns.rk)
    IN  [ns EXCEPT !.rk = t[2], !.rn = 0]

\* A rotation of the receive key that overwrites the send key with it.
rotate_recv_rotating_both(ns) ==
    LET t == hkdf_extract_expand(ns.rck, ns.rk)
    IN  [ns EXCEPT !.rck = t[1], !.rk = t[2], !.rn = 0,
                   !.sck = t[1], !.sk = t[2], !.sn = 0]

\* The rotation of the receive key: (rck, rk) <- HKDF(rck, rk), rn <- 0.
rotate_recv(ns) ==
    LET t == hkdf_extract_expand(ns.rck, ns.rk)
    IN  [ns EXCEPT !.rck = t[1], !.rk = t[2], !.rn = 0]

encrypt_message(ns, msg) ==
    IF BytesLen(msg) > 65535
    THEN [panic |-> TRUE, noise_state |-> ns, res |-> <<>>, aead |-> <<>>,
          rotated |-> FALSE]
    ELSE
    LET rotated == send_key_is_spent(ns.sn)
        s1 == IF rotated THEN rotate_send(ns) ELSE ns
        header == encrypt_with_ad(s1.sn, s1.sk, Empty,
                                  be16_to_array(BytesLen(msg) % 65536))
        s2 == [s1 EXCEPT !.sn = increment(s1.sn)]
        payload == encrypt_with_ad(s2.sn, s2.sk, Empty, msg)
        s3 == [s2 EXCEPT !.sn = increment(s2.sn)]
    IN  [panic |-> FALSE, noise_state |-> s3, res |-> <<header, payload>>,
         aead |-> <<AeadOp(s1.sk, header[3], s1.sn, s2.sn, TRUE),
                    AeadOp(s2.sk, payload[3], s2.sn, s3.sn, TRUE)>>,
         rotated |-> rotated]

\* decrypt_length_header stepping rn although the tag failed.
decrypt_length_header_counting_failures(ns, msg) ==
    IF CipherLen(msg) # 16 + 2
    THEN [panic |-> TRUE, ok |-> FALSE, err |-> "panic", action |-> NoAction,
          noise_state |-> ns, ret |-> 0, aead |-> <<>>, rotated |-> FALSE]
    ELSE
    LET rotated == recv_key_is_spent(ns.rn)
        s1 == IF rotated THEN rotate_recv(ns) ELSE ns
        dec == decrypt_with_ad(s1.rn, s1.rk, Empty, msg)
    IN  IF ~dec.ok
        THEN [panic |-> FALSE, ok |-> FALSE, err |-> dec.err, action |-> dec.action,
              noise_state |-> [s1 EXCEPT !.rn = increment(s1.rn)], ret |-> 0,
              aead |-> <<AeadOp(s1.rk, s1.rn, s1.rn, s1.rn, FALSE)>>,
              rotated |-> rotated]
        ELSE [panic |-> FALSE, ok |-> TRUE, err |-> "", action |-> NoAction,
              noise_state |-> [s1 EXCEPT !.rn = increment(s1.rn)],
              ret |-> slice_to_be16(dec.res),
              aead |-> <<AeadOp(s1.rk, s1.rn, s1.rn, increment(s1.rn), TRUE)>>,
              rotated |-> rotated]

decrypt_length_header(ns, msg) ==
    IF CipherLen(msg) # 16 + 2
    THEN [panic |-> TRUE, ok |-> FALSE, err |-> "panic", action |-> NoAction,
          noise_state |-> ns, ret |-> 0, aead |-> <<>>, rotated |-> FALSE]
    ELSE
    LET rotated == recv_key_is_spent(ns.rn)
        s1 == IF rotated THEN rotate_recv(ns) ELSE ns
        dec == decrypt_with_ad(s1.rn, s1.rk, Empty, msg)
    IN  IF ~dec.ok
        THEN [panic |-> FALSE, ok |-> FALSE, err |-> dec.err, action |-> dec.action,
              noise_state |-> s1, ret |-> 0, aead |-> <<AeadOp(s1.rk, s1.rn, s1.rn, s1.rn, FALSE)>>,
              rotated |-> rotated]
        ELSE [panic |-> FALSE, ok |-> TRUE, err |-> "", action |-> NoAction,
              noise_state |-> [s1 EXCEPT !.rn = increment(s1.rn)],
              ret |-> slice_to_be16(dec.res),
              aead |-> <<AeadOp(s1.rk, s1.rn, s1.rn, increment(s1.rn), TRUE)>>,
              rotated |-> rotated]

\* decrypt_message without the test of msg.len().
decrypt_message_of_any_length(ns, msg) ==
    IF CipherLen(msg) < 16
    THEN [panic |-> TRUE, ok |-> FALSE, err |-> "panic", action |-> NoAction,
          noise_state |-> ns, ret |-> Nil, aead |-> <<>>, rotated |-> FALSE]
    ELSE
    LET dec == decrypt_with_ad(ns.rn, ns.rk, Empty, msg)
    IN  IF ~dec.ok
        THEN [panic |-> FALSE, ok |-> FALSE, err |-> dec.err, action |-> dec.action,
              noise_state |-> ns, ret |-> Nil,
              aead |-> <<AeadOp(ns.rk, ns.rn, ns.rn, ns.rn, FALSE)>>,
              rotated |-> FALSE]
        ELSE [panic |-> FALSE, ok |-> TRUE, err |-> "", action |-> NoAction,
              noise_state |-> [ns EXCEPT !.rn = increment(ns.rn)],
              ret |-> dec.res,
              aead |-> <<AeadOp(ns.rk, ns.rn, ns.rn, increment(ns.rn), TRUE)>>,
              rotated |-> FALSE]

\* decrypt_message stepping rn before it knows that the tag verifies.
decrypt_message_counting_failures(ns, msg) ==
    IF CipherLen(msg) > 65535 + 16 \/ CipherLen(msg) < 16
    THEN [panic |-> TRUE, ok |-> FALSE, err |-> "panic", action |-> NoAction,
          noise_state |-> ns, ret |-> Nil, aead |-> <<>>, rotated |-> FALSE]
    ELSE
    LET dec == decrypt_with_ad(ns.rn, ns.rk, Empty, msg)
    IN  [panic |-> FALSE, ok |-> dec.ok, err |-> dec.err, action |-> dec.action,
         noise_state |-> [ns EXCEPT !.rn = increment(ns.rn)],
         ret |-> dec.res,
         aead |-> <<AeadOp(ns.rk, ns.rn, ns.rn, increment(ns.rn), dec.ok)>>,
         rotated |-> FALSE]

\* decrypt_message as its documentation describes it: a message too short
\* to hold a tag fails to authenticate.
decrypt_message_as_documented(ns, msg) ==
    IF CipherLen(msg) > 65535 + 16
    THEN [panic |-> TRUE, ok |-> FALSE, err |-> "panic", action |-> NoAction,
          noise_state |-> ns, ret |-> Nil, aead |-> <<>>, rotated |-> FALSE]
    ELSE IF CipherLen(msg) < 16
    THEN [panic |-> FALSE, ok |-> FALSE, err |-> "Bad MAC", action |-> DisconnectPeer,
          noise_state |-> ns, ret |-> Nil,
          aead |-> <<AeadOp(ns.rk, ns.rn, ns.rn, ns.rn, FALSE)>>, rotated |-> FALSE]
    ELSE
    LET dec == decrypt_with_ad(ns.rn, ns.rk, Empty, msg)
    IN  IF ~dec.ok
        THEN [panic |-> FALSE, ok |-> FALSE, err |-> dec.err, action |-> dec.action,
              noise_state |-> ns, ret |-> Nil, aead |-> <<AeadOp(ns.rk, ns.rn, ns.rn, ns.rn, FALSE)>>,
              rotated |-> FALSE]
        ELSE [panic |-> FALSE, ok |-> TRUE, err |-> "", action |-> NoAction,
              noise_state |-> [ns EXCEPT !.rn = increment(ns.rn)],
              ret |-> dec.res,
              aead |-> <<AeadOp(ns.rk, ns.rn, ns.rn, increment(ns.rn), TRUE)>>,
              rotated |-> FALSE]

\* msg.len() - 16 is computed in usize before anything is decrypted (578):
\* with fewer than 16 bytes the subtraction overflows, which panics in a
\* build with overflow checks and otherwise wraps to more than isize::MAX,
\* with which Vec::with_capacity panics.
decrypt_message(ns, msg) ==
    IF CipherLen(msg) > 65535 + 16
    THEN [panic |-> TRUE, ok |-> FALSE, err |-> "panic", action |-> NoAction,
          noise_state |-> ns, ret |-> Nil, aead |-> <<>>, rotated |-> FALSE]
    ELSE IF CipherLen(msg) < 16
    THEN [panic |-> TRUE, ok |-> FALSE, err |-> "panic", action |-> NoAction,
          noise_state |-> ns, ret |-> Nil, aead |-> <<>>, rotated |-> FALSE]
    ELSE
    LET dec == decrypt_with_ad(ns.rn, ns.rk, Empty, msg)
    IN  IF ~dec.ok
        THEN [panic |-> FALSE, ok |-> FALSE, err |-> dec.err, action |-> dec.action,
              noise_state |-> ns, ret |-> Nil, aead |-> <<AeadOp(ns.rk, ns.rn, ns.rn, ns.rn, FALSE)>>,
              rotated |-> FALSE]
        ELSE [panic |-> FALSE, ok |-> TRUE, err |-> "", action |-> NoAction,
              noise_state |-> [ns EXCEPT !.rn = increment(ns.rn)],
              ret |-> dec.res,
              aead |-> <<AeadOp(ns.rk, ns.rn, ns.rn, increment(ns.rn), TRUE)>>,
              rotated |-> FALSE]

-----------------------------------------------------------------------------
(* The state of the model and the calls made on the two encryptors.        *)

\* The ways an act is changed on its way to the peer.
ActMutations == {"none", "version", "point", "tag"}

\* More ways, and several at once: the point replaced by another point of
\* the curve ("point_valid"), a byte cut off or added ("short", "long"), and,
\* by an initiator that does not run this encryptor, the encrypted static key
\* replaced by the encryption under the same key of 33 bytes that are no
\* point ("bad_static").
Act50Inputs ==
    ActMutations \cup
    {"point_valid", "version+point", "version+tag", "point+tag",
     "version+point+tag", "point_valid+tag", "short", "long", "long+version"}

Act66Inputs ==
    ActMutations \cup
    {"bad_static", "version+point", "version+tag", "point+tag",
     "version+point+tag", "bad_static+tag", "version+bad_static",
     "short", "long", "long+version"}

\* The single changes a way of changing an act is made of.
Changes(m) ==
    CASE m = "none" -> {}
      [] m = "version+point" -> {"version", "point"}
      [] m = "version+tag" -> {"version", "tag"}
      [] m = "point+tag" -> {"point", "tag"}
      [] m = "version+point+tag" -> {"version", "point", "tag"}
      [] m = "point_valid+tag" -> {"point_valid", "tag"}
      [] m = "bad_static+tag" -> {"bad_static", "tag"}
      [] m = "version+bad_static" -> {"version", "bad_static"}
      [] m = "long+version" -> {"long", "version"}
      [] OTHER -> {m}

MutatePad(ch) == IF "short" \in ch THEN -1 ELSE IF "long" \in ch THEN 1 ELSE 0

MutateAct50(act, m) ==
    LET ch == Changes(m) IN
    [version |-> IF "version" \in ch THEN 1 ELSE act.version,
     point |-> IF "point" \in ch THEN <<"point", 0>>
               ELSE IF "point_valid" \in ch THEN <<"point", act.point[2] + 1>>
               ELSE act.point,
     tag |-> IF "tag" \in ch THEN Corrupt(act.tag) ELSE act.tag,
     pad |-> MutatePad(ch)]

MutateAct66(act, m) ==
    LET ch == Changes(m) IN
    [version |-> IF "version" \in ch THEN 1 ELSE act.version,
     c |-> IF "point" \in ch THEN Corrupt(act.c)
           ELSE IF "bad_static" \in ch
           THEN encrypt_with_ad(act.c[3], act.c[2], act.c[4], <<"point", 0>>)
           ELSE act.c,
     tag |-> IF "tag" \in ch THEN Corrupt(act.tag) ELSE act.tag,
     pad |-> MutatePad(ch)]

\* The plaintexts a peer sends.
Messages == {Bytes(0, 0), Bytes(5, 1)}

NoCall ==
    [who |-> "", op |-> "", ok |-> TRUE, err |-> "", ret |-> Nil, input |-> "",
     part |-> Nil, bytes |-> Nil, before |-> NoFinished, in_turn |-> FALSE,
     aead |-> <<>>, rotated |-> FALSE, panic |-> FALSE, action |-> NoAction,
     consumed |-> <<>>, emitted |-> <<>>, fresh |-> TRUE]

Call(who, op, ok, err, ret, input) ==
    [NoCall EXCEPT !.who = who, !.op = op, !.ok = ok, !.err = err, !.ret = ret,
                   !.input = input]

NoHist ==
    [get_act_one |-> 0, process_act_one_with_keys |-> 0, process_act_two |-> 0,
     process_act_three |-> 0, sent |-> 0, enc_ops |-> 0, dec_ops |-> 0,
     crafted |-> 0, handshake |-> NoFinished, expect |-> "header",
     alternating |-> TRUE, constructed_with |-> Nil, generations |-> <<>>]

\* The remote static keys an initiator may be constructed with: the
\* responder's, or another key.
RemoteStatics ==
    {from_secret_key(RESPONDER_STATIC), from_secret_key(RESPONDER_EPHEMERAL)}

Init ==
    /\ \E their_node_id \in RemoteStatics :
          enc = [p \in Peers |->
                   IF p = "I" THEN new_outbound(their_node_id, INITIATOR_EPHEMERAL)
                   ELSE new_inbound(RESPONDER_STATIC)]
    /\ acts = [one |-> <<>>, two |-> <<>>, three |-> <<>>]
    /\ net = [p \in Peers |-> <<>>]
    /\ lastCall = NoCall
    /\ hist = [p \in Peers |->
                 IF p = "I"
                 THEN [NoHist EXCEPT !.constructed_with =
                         enc[p].directional_state.their_node_id]
                 ELSE NoHist]

\* get_act_one advancing the encryptor without handing out act one.
GetActOneWithoutAct(p) ==
    /\ enc[p].dir = "Outbound"
    /\ enc[p].step = "PreActOne"
    /\ enc' = [enc EXCEPT ![p] = get_act_one(enc[p]).next]
    /\ lastCall' = Call(p, "get_act_one", TRUE, "", Nil, "none")
    /\ hist' = [hist EXCEPT ![p].get_act_one = @ + 1]
    /\ UNCHANGED <<acts, net>>

GetActOne(p) ==
    /\ enc[p].dir = "Outbound"
    /\ enc[p].step = "PreActOne"
    /\ LET r == get_act_one(enc[p]) IN
         /\ enc' = [enc EXCEPT ![p] = r.next]
         /\ acts' = [acts EXCEPT !.one = <<r.res>>]
         /\ lastCall' = [Call(p, "get_act_one", TRUE, "", Nil, "none")
                           EXCEPT !.emitted = <<r.res>>]
    /\ hist' = [hist EXCEPT ![p].get_act_one = @ + 1]
    /\ UNCHANGED net

\* What a call that processes an act leaves behind: the encryptor it returns
\* or consumes, the act it emits, and the history.
ActProcessed(p, op, m, act, r) ==
    /\ enc' = [enc EXCEPT ![p] = r.next]
    /\ acts' = CASE r.ok /\ op = "process_act_one_with_keys" ->
                       [acts EXCEPT !.two = <<r.res>>]
                  [] r.ok /\ op = "process_act_two" ->
                       [acts EXCEPT !.three = <<r.res>>]
                  [] OTHER -> acts
    /\ lastCall' = [Call(p, op, r.ok, r.err,
                         IF op = "process_act_one_with_keys" THEN Nil ELSE r.key, m)
                      EXCEPT !.panic = r.panic, !.action = r.action,
                             !.consumed = <<act>>,
                             !.emitted = IF r.ok /\ op # "process_act_three"
                                         THEN <<r.res>> ELSE <<>>]
    /\ hist' = [hist EXCEPT ![p][op] = @ + 1,
                            ![p].handshake =
                                IF op = "process_act_one_with_keys" THEN @
                                ELSE r.next.noise_state]
    /\ UNCHANGED net

ProcessActOneWithKeys(p, m) ==
    /\ enc[p].dir = "Inbound"
    /\ enc[p].step = "PreActOne"
    /\ acts.one # <<>>
    /\ LET act_one == MutateAct50(acts.one[1], m) IN
         ActProcessed(p, "process_act_one_with_keys", m, act_one,
                      process_act_one_with_keys(enc[p], act_one, RESPONDER_STATIC,
                                                RESPONDER_EPHEMERAL))

ProcessActTwo(p, m) ==
    /\ enc[p].dir = "Outbound"
    /\ enc[p].step = "PostActOne"
    /\ acts.two # <<>>
    /\ LET act_two == MutateAct50(acts.two[1], m) IN
         ActProcessed(p, "process_act_two", m, act_two,
                      process_act_two(enc[p], act_two, INITIATOR_STATIC))

ProcessActThree(p, m) ==
    /\ enc[p].dir = "Inbound"
    /\ enc[p].step = "PostActTwo"
    /\ acts.three # <<>>
    /\ LET act_three == MutateAct66(acts.three[1], m) IN
         ActProcessed(p, "process_act_three", m, act_three,
                      process_act_three(enc[p], act_three))

\* A frame part on the wire: the ciphertext, whether it is the header or the
\* payload of its frame, and the message the frame carries.
Part(c, kind, msg) == [c |-> c, kind |-> kind, msg |-> msg]

\* The send keys an encryptor has encrypted under so far, oldest first, each
\* with the highest nonce passed with it: gens with the keys and nonces of
\* the call that returned r added.  A call that rotated, or the first call,
\* opens a generation.
OpensGeneration(gens, r) == gens = <<>> \/ r.rotated

CurrentGeneration(gens, r) ==
    IF OpensGeneration(gens, r)
    THEN [key |-> r.noise_state.sk, high |-> -1]
    ELSE gens[Len(gens)]

Greater(a, b) == IF a > b THEN a ELSE b

GenerationsAfter(gens, r) ==
    LET cur == CurrentGeneration(gens, r)
        high == Greater(cur.high, Greater(r.aead[1].n, r.aead[2].n))
    IN  (IF OpensGeneration(gens, r) THEN gens ELSE SubSeq(gens, 1, Len(gens) - 1))
          \o <<[cur EXCEPT !.high = high]>>

\* No AEAD operation of the call that returned r passes a key and a nonce
\* that were passed together before: a generation the call opens has a key
\* of no generation before it, and under the generation's key each nonce is
\* above every nonce passed with that key before.
FreshPairs(gens, r) ==
    LET cur == CurrentGeneration(gens, r) IN
    /\ OpensGeneration(gens, r) => \A j \in 1..Len(gens) : gens[j].key # cur.key
    /\ \A i \in 1..Len(r.aead) : r.aead[i].key = cur.key
    /\ r.aead[1].n > cur.high
    /\ r.aead[2].n > r.aead[1].n

\* encrypt_message called by p, which has sent fewer than limit messages,
\* while at most window frame parts are in flight to its peer.
EncryptMessageWithin(p, msg, limit, window) ==
    /\ enc[p].step = "Finished"
    /\ hist[p].sent < limit
    /\ \A q \in Peers : hist[q].crafted = 0
    /\ Len(net[Other(p)]) + 2 <= window
    /\ LET r == encrypt_message(enc[p].noise_state, msg) IN
         /\ enc' = [enc EXCEPT ![p].noise_state = r.noise_state]
         /\ net' = IF r.panic THEN net
                   ELSE [net EXCEPT ![Other(p)] =
                           @ \o <<Part(r.res[1], "header", msg),
                                  Part(r.res[2], "payload", msg)>>]
         /\ lastCall' = [Call(p, "encrypt_message", ~r.panic, "", r.res, "none")
                           EXCEPT !.aead = r.aead, !.rotated = r.rotated,
                                  !.panic = r.panic, !.bytes = msg,
                                  !.before = enc[p].noise_state,
                                  !.fresh = r.panic \/ FreshPairs(hist[p].generations, r)]
         /\ hist' = IF r.panic THEN hist
                    ELSE [hist EXCEPT ![p].sent = @ + 1,
                                      ![p].enc_ops = @ + Len(r.aead),
                                      ![p].generations = GenerationsAfter(@, r)]
    /\ UNCHANGED acts

EncryptMessage(p, msg, limit) == EncryptMessageWithin(p, msg, limit, MaxInFlight)

\* Where the bytes given to a decrypting call come from: the next part on
\* the wire ("head"), that part with a bit flipped ("corrupt"), or a part
\* made by a peer that holds the session keys without running this
\* encryptor, under the receiver's current key and counter ("crafted") or
\* under its next key and counter 0 ("crafted_next").
WireSources == {"head", "corrupt"}

CraftedSources == {"crafted", "crafted_next"}

\* Parts given out of the order they were sent in: the part after the next
\* one ("second": the next part skipped, or the two swapped), the one after
\* that ("third"), or again the part that the call before this one has
\* just accepted ("replay").
OutOfOrderSources == {"second", "third", "replay"}

\* A ciphertext of 65552 bytes that the peer made under the receiver's
\* current key and counter.
OversizedSources == {"oversized"}

\* Bytes too few to hold the 16-byte tag: none, and 15.
ShortSources == {"empty", "truncated"}

\* The place in the queue of the part a source takes.
Position(src) == CASE src = "second" -> 2 [] src = "third" -> 3 [] OTHER -> 1

SourceAvailable(p, src) ==
    CASE src \in WireSources \cup {"second", "third"} -> Len(net[p]) >= Position(src)
      [] src = "replay" ->
            /\ lastCall.who = p
            /\ lastCall.op \in {"decrypt_length_header", "decrypt_message"}
            /\ lastCall.ok
            /\ lastCall.input = "head"
      [] src \in OversizedSources \cup ShortSources -> TRUE
      [] OTHER ->
            /\ \A q \in Peers : enc[q].step = "Finished" /\ hist[q].sent = 0
            /\ hist[Other(p)].crafted = 0
            /\ hist[p].crafted < MaxCrafted

\* The part of the wire a source takes, if it takes one.
ReceivedPart(p, src) ==
    CASE src \in WireSources \cup {"second", "third"} -> net[p][Position(src)]
      [] src = "replay" -> lastCall.part
      [] OTHER -> Nil

ReceivedBytes(p, src, plaintext) ==
    LET ns == enc[p].noise_state IN
    CASE src = "corrupt" -> Corrupt(Head(net[p]).c)
      [] src = "crafted" -> encrypt_with_ad(ns.rn, ns.rk, Empty, plaintext)
      [] src = "crafted_next" -> encrypt_with_ad(0, rotate_recv(ns).rk, Empty, plaintext)
      [] src = "oversized" -> encrypt_with_ad(ns.rn, ns.rk, Empty, Bytes(65536, 1))
      [] src = "empty" -> Bytes(0, 0)
      [] src = "truncated" -> Bytes(15, 1)
      [] OTHER -> ReceivedPart(p, src).c

\* What a decrypting call returns in Ok: the u16 of decrypt_length_header,
\* the plaintext of decrypt_message; Nil if it returns Err or panics.
Returned(op, r) ==
    IF ~r.ok THEN Nil
    ELSE IF op = "decrypt_length_header" THEN <<"u16", r.ret>> ELSE r.ret

\* What a decrypting call leaves of the wire and adds to the history.
Received(p, op, src, bytes, r) ==
    /\ enc' = [enc EXCEPT ![p].noise_state = r.noise_state]
    /\ net' = IF src = "head" /\ r.ok THEN [net EXCEPT ![p] = Tail(@)] ELSE net
    /\ lastCall' = [Call(p, op, r.ok, r.err, Returned(op, r), src)
                      EXCEPT !.aead = r.aead, !.rotated = r.rotated,
                             !.panic = r.panic, !.action = r.action,
                             !.bytes = bytes,
                             !.before = enc[p].noise_state,
                             !.in_turn =
                                 /\ hist[p].alternating
                                 /\ hist[p].expect =
                                      (IF op = "decrypt_length_header"
                                       THEN "header" ELSE "payload"),
                             !.part = ReceivedPart(p, src)]
    /\ hist' = IF ~r.ok THEN hist
               ELSE [hist EXCEPT
                       ![p].dec_ops = @ + 1,
                       ![p].crafted = IF src \in CraftedSources THEN @ + 1 ELSE @,
                       ![p].alternating =
                           @ /\ hist[p].expect =
                                  (IF op = "decrypt_length_header" THEN "header"
                                   ELSE "payload"),
                       ![p].expect = IF op = "decrypt_length_header" THEN "payload"
                                     ELSE "header"]
    /\ UNCHANGED acts

DecryptLengthHeader(p, src) ==
    /\ enc[p].step = "Finished"
    /\ SourceAvailable(p, src)
    /\ LET bytes == ReceivedBytes(p, src, be16_to_array(5)) IN
         Received(p, "decrypt_length_header", src, bytes,
                  decrypt_length_header(enc[p].noise_state, bytes))

DecryptMessage(p, src) ==
    /\ enc[p].step = "Finished"
    /\ SourceAvailable(p, src)
    /\ LET bytes == ReceivedBytes(p, src, Bytes(5, 1)) IN
         Received(p, "decrypt_message", src, bytes,
                  decrypt_message(enc[p].noise_state, bytes))

Next ==
    \/ \E p \in Peers : GetActOne(p)
    \/ \E p \in Peers, m \in ActMutations : ProcessActOneWithKeys(p, m)
    \/ \E p \in Peers, m \in ActMutations : ProcessActTwo(p, m)
    \/ \E p \in Peers, m \in ActMutations : ProcessActThree(p, m)
    \/ \E msg \in Messages : EncryptMessage("I", msg, MaxSend)
    \/ \E p \in Peers, src \in WireSources \cup CraftedSources :
          DecryptLengthHeader(p, src)
    \/ \E p \in Peers, src \in WireSources \cup CraftedSources :
          DecryptMessage(p, src)

Spec == Init /\ [][Next]_vars

\* The handshake acts delivered as they were emitted, and a short exchange
\* of messages after them; each step is taken once it can be.
NextUnmodified ==
    \/ \E p \in Peers : GetActOne(p)
    \/ \E p \in Peers : ProcessActOneWithKeys(p, "none")
    \/ \E p \in Peers : ProcessActTwo(p, "none")
    \/ \E p \in Peers : ProcessActThree(p, "none")
    \/ \E msg \in Messages : EncryptMessage("I", msg, MaxLiveSend)
    \/ \E p \in Peers : DecryptLengthHeader(p, "head")
    \/ \E p \in Peers : DecryptMessage(p, "head")

SpecLive ==
    /\ Init
    /\ [][NextUnmodified]_vars
    /\ WF_vars(\E p \in Peers : GetActOne(p))
    /\ WF_vars(\E p \in Peers : ProcessActOneWithKeys(p, "none"))
    /\ WF_vars(\E p \in Peers : ProcessActTwo(p, "none"))
    /\ WF_vars(\E p \in Peers : ProcessActThree(p, "none"))

\* The handshake with its acts changed on the way or not, and a short
\* exchange of messages after it.
NextHandshake ==
    \/ \E p \in Peers : GetActOne(p)
    \/ \E p \in Peers, m \in ActMutations : ProcessActOneWithKeys(p, m)
    \/ \E p \in Peers, m \in ActMutations : ProcessActTwo(p, m)
    \/ \E p \in Peers, m \in ActMutations : ProcessActThree(p, m)
    \/ \E msg \in Messages : EncryptMessage("I", msg, MaxLiveSend)
    \/ \E p \in Peers, src \in WireSources : DecryptLengthHeader(p, src)
    \/ \E p \in Peers, src \in WireSources : DecryptMessage(p, src)

SpecHandshake == Init /\ [][NextHandshake]_vars

\* The plaintexts a peer sends where lengths are looked at: the shortest and
\* the longest that encrypt_message takes, one too long for it, and one whose
\* payload is as long as a length header.
InputMessages == {Bytes(0, 0), Bytes(2, 1), Bytes(65535, 1), Bytes(65536, 1)}

\* The handshake and the transport with anything for input: acts changed in
\* one or several places or of the wrong length, messages of any length,
\* frame parts corrupted, out of order or too long.
NextInputs ==
    \/ \E p \in Peers : GetActOne(p)
    \/ \E p \in Peers, m \in Act50Inputs : ProcessActOneWithKeys(p, m)
    \/ \E p \in Peers, m \in Act50Inputs : ProcessActTwo(p, m)
    \/ \E p \in Peers, m \in Act66Inputs : ProcessActThree(p, m)
    \/ \E msg \in InputMessages :
          EncryptMessageWithin("I", msg, MaxInputSend, MaxWindow)
    \/ \E p \in Peers,
          src \in WireSources \cup OutOfOrderSources \cup OversizedSources
                    \cup ShortSources :
          DecryptLengthHeader(p, src)
    \/ \E p \in Peers,
          src \in WireSources \cup OutOfOrderSources \cup OversizedSources
                    \cup ShortSources :
          DecryptMessage(p, src)

SpecInputs == Init /\ [][NextInputs]_vars

\* The plaintext a peer sends where the order of the frame parts is looked
\* at: its payload is as long as a length header, so every part can be given
\* to either decrypting call.
OrderMessages == {Bytes(2, 1)}

\* The handshake with its acts unchanged, and frames whose parts reach the
\* decrypting calls in order or out of order.
NextOrder ==
    \/ \E p \in Peers : GetActOne(p)
    \/ \E p \in Peers : ProcessActOneWithKeys(p, "none")
    \/ \E p \in Peers : ProcessActTwo(p, "none")
    \/ \E p \in Peers : ProcessActThree(p, "none")
    \/ \E msg \in OrderMessages :
          EncryptMessageWithin("I", msg, MaxOrderSend, MaxWindow)
    \/ \E src \in {"head"} \cup OutOfOrderSources : DecryptLengthHeader("R", src)
    \/ \E src \in {"head"} \cup OutOfOrderSources : DecryptMessage("R", src)

SpecOrder == Init /\ [][NextOrder]_vars

\* The plaintexts a peer sends where both peers send.
DuplexMessages == {Bytes(0, 0), Bytes(5, 1)}

\* p may encrypt another message: one peer sends up to MaxDuplexSend
\* messages while the other sends up to MaxDuplexReply.
MaySend(p) ==
    /\ hist[p].sent < MaxDuplexSend
    /\ hist[p].sent < MaxDuplexReply \/ hist[Other(p)].sent <= MaxDuplexReply

\* The handshake with its acts unchanged, then the two peers sending and
\* receiving in any interleaving; each direction's frame parts reach the
\* receiver's calls unmodified and in order, the header at
\* decrypt_length_header and the payload at decrypt_message.
NextDuplex ==
    \/ \E p \in Peers : GetActOne(p)
    \/ \E p \in Peers : ProcessActOneWithKeys(p, "none")
    \/ \E p \in Peers : ProcessActTwo(p, "none")
    \/ \E p \in Peers : ProcessActThree(p, "none")
    \/ \E p \in Peers, msg \in DuplexMessages :
          MaySend(p) /\ EncryptMessageWithin(p, msg, MaxDuplexSend, MaxInFlight)
    \/ \E p \in Peers :
          /\ net[p] # <<>>
          /\ Head(net[p]).kind = "header"
          /\ DecryptLengthHeader(p, "head")
    \/ \E p \in Peers :
          /\ net[p] # <<>>
          /\ Head(net[p]).kind = "payload"
          /\ DecryptMessage(p, "head")

SpecDuplex == Init /\ [][NextDuplex]_vars

-----------------------------------------------------------------------------
(* The claims.                                                             *)

BothFinished == \A p \in Peers : enc[p].step = "Finished"

\* C1: when the handshake has completed on both sides, the initiator by
\* process_act_two and the responder by process_act_three, the two Finished
\* states they entered satisfy I.sk = R.rk, I.rk = R.sk, the four chaining
\* keys are one value, and all four counters are 0.
C1_FinishedPairAgrees ==
    BothFinished =>
        LET i == hist["I"].handshake
            r == hist["R"].handshake
        IN  /\ i.sk = r.rk
            /\ i.rk = r.sk
            /\ i.sck = i.rck /\ i.rck = r.sck /\ r.sck = r.rck
            /\ i.sk # i.rk
            /\ i.sn = 0 /\ i.rn = 0 /\ r.sn = 0 /\ r.rn = 0
            /\ (lastCall.op = "process_act_three" => enc["R"].noise_state = r)

C1_Witness ==
    /\ BothFinished
    /\ lastCall.op = "process_act_three"
    /\ lastCall.ok
    /\ hist["I"].process_act_two = 1

\* The initiator was constructed with the responder's static public key.
KnowsResponder == hist["I"].constructed_with = from_secret_key(RESPONDER_STATIC)

\* C2 (the calls): get_act_one succeeds; with the initiator constructed with
\* the responder's static public key and every act delivered as emitted,
\* process_act_one_with_keys, process_act_two and process_act_three succeed,
\* process_act_two returns the key the initiator was constructed with and
\* process_act_three returns the public key of the secret passed to
\* process_act_two.
C2_UnmodifiedActsSucceed ==
    /\ lastCall.op = "get_act_one" => lastCall.ok
    /\ (lastCall.op = "process_act_one_with_keys" /\ KnowsResponder) => lastCall.ok
    /\ lastCall.op = "process_act_two" =>
          /\ lastCall.ok
          /\ lastCall.ret = hist["I"].constructed_with
          /\ KnowsResponder
    /\ lastCall.op = "process_act_three" =>
          /\ lastCall.ok
          /\ lastCall.ret = from_secret_key(INITIATOR_STATIC)

\* C2: under unmodified, in-order delivery the calls succeed as above, and an
\* initiator constructed with the responder's static public key leads to both
\* sides being Finished.
C2_HandshakeCompletes ==
    /\ []C2_UnmodifiedActsSucceed
    /\ (KnowsResponder ~> BothFinished)

C2_Witness ==
    /\ BothFinished
    /\ KnowsResponder
    /\ lastCall.op = "process_act_three"
    /\ lastCall.ret = from_secret_key(INITIATOR_STATIC)

HandshakeOps ==
    {"get_act_one", "process_act_one_with_keys", "process_act_two",
     "process_act_three"}

TransportOps == {"encrypt_message", "decrypt_length_header", "decrypt_message"}

\* The moves of one encryptor that a call may make: <<direction, step
\* before, call, step after>>.  A handshake call that fails leaves nothing
\* behind: the value it took is Consumed.
AllowedMoves ==
    {<<"Outbound", "PreActOne", "get_act_one", "PostActOne">>,
     <<"Outbound", "PostActOne", "process_act_two", "Finished">>,
     <<"Outbound", "PostActOne", "process_act_two", "Consumed">>,
     <<"Inbound", "PreActOne", "process_act_one_with_keys", "PostActTwo">>,
     <<"Inbound", "PreActOne", "process_act_one_with_keys", "Consumed">>,
     <<"Inbound", "PostActTwo", "process_act_three", "Finished">>,
     <<"Inbound", "PostActTwo", "process_act_three", "Consumed">>,
     <<"Outbound", "Finished", "encrypt_message", "Finished">>,
     <<"Outbound", "Finished", "decrypt_length_header", "Finished">>,
     <<"Outbound", "Finished", "decrypt_message", "Finished">>,
     <<"Inbound", "Finished", "encrypt_message", "Finished">>,
     <<"Inbound", "Finished", "decrypt_length_header", "Finished">>,
     <<"Inbound", "Finished", "decrypt_message", "Finished">>}

C3_Step ==
    LET p == lastCall'.who IN
    /\ p \in Peers
    /\ <<enc[p].dir, enc[p].step, lastCall'.op, enc'[p].step>> \in AllowedMoves
    /\ enc'[p].step = "Consumed" <=> ~lastCall'.ok /\ lastCall'.op \in HandshakeOps
    /\ enc'[p].step \notin {"Consumed"} => enc'[p].dir = enc[p].dir
    /\ \A q \in Peers \ {p} : enc'[q] = enc[q]
    /\ \A q \in Peers, op \in HandshakeOps : hist'[q][op] <= 1

\* C3: every step is a call on one encryptor that moves it along
\* PreActOne(Outbound) -> PostActOne(Outbound) -> Finished by get_act_one then
\* process_act_two, or along PreActOne(Inbound) -> PostActTwo(Inbound) ->
\* Finished by process_act_one_with_keys then process_act_three; each
\* handshake call is applied at most once and the value it was applied to is
\* gone; Finished is left by no call; and encrypt_message,
\* decrypt_length_header and decrypt_message are called in Finished only.
C3_StateMachine == [][C3_Step]_vars

C3_Witness ==
    /\ BothFinished
    /\ \A op \in {"get_act_one", "process_act_two"} : hist["I"][op] = 1
    /\ \A op \in {"process_act_one_with_keys", "process_act_three"} : hist["R"][op] = 1
    /\ lastCall.op = "decrypt_message"
    /\ lastCall.who = "R"

\* The last call was op, made on p, and it did not panic.
Called(p, op) == lastCall.who = p /\ lastCall.op = op /\ ~lastCall.panic

Now(p) == enc[p].noise_state

\* C4: a length header that encrypt_message made, given as the next part on
\* the wire to the peer's decrypt_length_header, decrypts to the length of
\* the message, and the payload that follows it, given to decrypt_message,
\* decrypts to the message; no such call fails, however many messages were
\* sent before and whichever rotations they brought.
C4_RoundTrip ==
    \A p \in Peers :
        /\ (Called(p, "decrypt_length_header") /\ lastCall.input = "head"
                /\ lastCall.part.kind = "header") =>
              /\ lastCall.ok
              /\ lastCall.ret = <<"u16", BytesLen(lastCall.part.msg)>>
        /\ (lastCall.who = p /\ lastCall.op = "decrypt_message"
                /\ lastCall.input = "head" /\ lastCall.part.kind = "payload") =>
              /\ ~lastCall.panic
              /\ lastCall.ok
              /\ lastCall.ret = lastCall.part.msg

C4_Witness ==
    /\ Called("R", "decrypt_message")
    /\ lastCall.input = "head"
    /\ lastCall.part.kind = "payload"
    /\ lastCall.ret = Bytes(5, 1)
    /\ hist["R"].alternating
    /\ hist["R"].dec_ops > 2000

\* C5 as claimed: in every Finished state sn and rn are in 0..1000.
C5_CountersInRange ==
    \A p \in Peers :
        enc[p].step = "Finished" => Now(p).sn \in 0..1000 /\ Now(p).rn \in 0..1000

\* C5, amended: in every Finished state sn is in 0..1000, and rn is in
\* 0..1000 as long as the decrypting calls that succeeded were alternately
\* decrypt_length_header and decrypt_message, the header first.
C5_CountersInRangeAlternating ==
    \A p \in Peers :
        enc[p].step = "Finished" =>
            /\ Now(p).sn \in 0..1000
            /\ Now(p).rn >= 0
            /\ hist[p].alternating => Now(p).rn <= 1000

C5_Witness ==
    /\ BothFinished
    /\ Now("I").sn = 1000
    /\ Now("R").rn = 1000
    /\ hist["R"].alternating
    /\ hist["R"].dec_ops = 2000

\* C6 as claimed: no AEAD operation of encrypt_message, decrypt_length_header
\* or decrypt_message is done with its direction's counter at 1000 or more.
C6_RotatedBeforeNextAead ==
    \A i \in 1..Len(lastCall.aead) : lastCall.aead[i].counter < 1000

\* The send key (entry = TRUE) or the receive key was rotated by the last
\* call: key and chaining key are the outputs of the HKDF of the chaining key
\* and key before, and the counter restarted from 0.
RotatedFrom(before, ck, key, first) ==
    LET t == hkdf_extract_expand(before[1], before[2])
    IN  ck = t[1] /\ key = t[2] /\ first.key = t[2] /\ first.n = 0

\* C6, amended: encrypt_message and decrypt_length_header, called with their
\* counter at 1000, rotate key and chaining key by HKDF and restart the
\* counter from 0 before their first AEAD operation, and rotate at no other
\* counter; decrypt_message never rotates, and uses rn as it is, which is
\* below 1000 whenever the successful decrypting calls alternate, header
\* first, and the call is the payload's turn.
C6_RotatedBeforeNextAeadInTurn ==
    \A p \in Peers :
        /\ Called(p, "encrypt_message") =>
              /\ lastCall.rotated <=> lastCall.before.sn = 1000
              /\ lastCall.before.sn <= 1000
              /\ \A i \in 1..2 : lastCall.aead[i].counter < 1000
              /\ IF lastCall.rotated
                 THEN RotatedFrom(<<lastCall.before.sck, lastCall.before.sk>>,
                                  Now(p).sck, Now(p).sk, lastCall.aead[1])
                 ELSE Now(p).sck = lastCall.before.sck /\ Now(p).sk = lastCall.before.sk
        /\ Called(p, "decrypt_length_header") =>
              /\ lastCall.rotated <=> lastCall.before.rn >= 1000
              /\ lastCall.aead[1].counter < 1000
              /\ IF lastCall.rotated
                 THEN RotatedFrom(<<lastCall.before.rck, lastCall.before.rk>>,
                                  Now(p).rck, Now(p).rk, lastCall.aead[1])
                 ELSE Now(p).rck = lastCall.before.rck /\ Now(p).rk = lastCall.before.rk
        /\ Called(p, "decrypt_message") =>
              /\ ~lastCall.rotated
              /\ Now(p).rck = lastCall.before.rck /\ Now(p).rk = lastCall.before.rk
              /\ lastCall.aead[1].counter = lastCall.before.rn
              /\ lastCall.in_turn => lastCall.aead[1].counter < 1000

C6_Witness ==
    /\ Called("R", "decrypt_length_header")
    /\ lastCall.rotated
    /\ lastCall.ok
    /\ lastCall.before.rn = 1000
    /\ Now("I").sn < 1000
    /\ hist["I"].sent > 500

\* The chaining key and key of a direction after g rotations of <<ck, key>>.
RECURSIVE Generation(_, _, _)
Generation(ck, key, g) ==
    IF g = 0 THEN <<ck, key>>
    ELSE LET prev == Generation(ck, key, g - 1)
         IN  hkdf_extract_expand(prev[1], prev[2])

\* The k-th AEAD operation of a direction (k from 0) whose handshake-derived
\* chaining key and key are ck and key: it uses nonce k mod 1000 under the
\* key rotated k div 1000 times, and the direction's chaining key is then
\* the one rotated as often.
RekeyLaw(ck, key, k, op, ck_now) ==
    LET gen == Generation(ck, key, k \div 1000)
    IN  /\ op.n = k % 1000
        /\ op.key = gen[2]
        /\ ck_now = gen[1]

C8_NoNonce1000 ==
    \A p \in Peers :
        /\ enc[p].step = "Finished" => Now(p).sn % 2 = 0
        /\ Called(p, "encrypt_message") =>
              /\ lastCall.before.sn % 2 = 0
              /\ lastCall.before.sn # 999
              /\ \A i \in 1..2 :
                    /\ lastCall.aead[i].n < 1000
                    /\ lastCall.ret[i][3] = lastCall.aead[i].n
                    /\ lastCall.ret[i][2] = Now(p).sk
              /\ lastCall.aead[2].n = lastCall.aead[1].n + 1
              /\ lastCall.aead[2].key = lastCall.aead[1].key

C8_Witness ==
    /\ Called("I", "encrypt_message")
    /\ lastCall.before.sn = 1000
    /\ lastCall.rotated
    /\ lastCall.aead[2].n = 1

Send(ns) == <<ns.sk, ns.sn, ns.sck>>

Recv(ns) == <<ns.rk, ns.rn, ns.rck>>

\* C9: encrypt_message leaves rk, rn and rck as they were, and
\* decrypt_length_header and decrypt_message leave sk, sn and sck as they
\* were, whether the call rotates a key or not and whether it fails or not.
C9_DirectionsIndependent ==
    \A p \in Peers :
        /\ (lastCall.who = p /\ lastCall.op = "encrypt_message") =>
              Recv(Now(p)) = Recv(lastCall.before)
        /\ (lastCall.who = p
                /\ lastCall.op \in {"decrypt_length_header", "decrypt_message"}) =>
              Send(Now(p)) = Send(lastCall.before)

C9_Witness ==
    /\ Called("R", "decrypt_length_header")
    /\ lastCall.rotated
    /\ ~lastCall.ok
    /\ Recv(Now("R")) # Recv(lastCall.before)

\* C10 as claimed: every AEAD operation of the transport is passed its
\* direction's counter as nonce and leaves that counter one higher.
C10_NonceIsCounter ==
    \A i \in 1..Len(lastCall.aead) :
        /\ lastCall.aead[i].n = lastCall.aead[i].counter
        /\ lastCall.aead[i].after = lastCall.aead[i].counter + 1

\* The counter a call starts its AEAD operations from.
StartingCounter(n) == IF lastCall.rotated THEN 0 ELSE n

\* C10, amended: every AEAD operation of the transport is passed its
\* direction's counter as nonce; an encryption, and a decryption whose tag
\* verifies, leaves the counter one higher, and a decryption whose tag does
\* not verify leaves it as it was.
C10_NonceIsCounterOnSuccess ==
    \A p \in Peers :
        /\ \A i \in 1..Len(lastCall.aead) :
              /\ lastCall.aead[i].n = lastCall.aead[i].counter
              /\ lastCall.aead[i].after =
                    lastCall.aead[i].counter + (IF lastCall.aead[i].ok THEN 1 ELSE 0)
        /\ Called(p, "encrypt_message") =>
              LET c0 == StartingCounter(lastCall.before.sn) IN
              /\ lastCall.ret[1][3] = c0
              /\ lastCall.ret[2][3] = c0 + 1
              /\ Now(p).sn = c0 + 2
        /\ (Called(p, "decrypt_length_header") \/ Called(p, "decrypt_message")) =>
              LET c0 == StartingCounter(lastCall.before.rn) IN
              /\ Len(lastCall.aead) = 1
              /\ lastCall.aead[1].n = c0
              /\ lastCall.aead[1].ok = lastCall.ok
              /\ lastCall.ok => lastCall.bytes[3] = c0 /\ Now(p).rn = c0 + 1
              /\ ~lastCall.ok => Now(p).rn = c0

C10_Witness ==
    /\ Called("R", "decrypt_message")
    /\ ~lastCall.ok
    /\ lastCall.input = "corrupt"
    /\ lastCall.aead[1].n = 999
    /\ Now("R").rn = 999

\* The last call was p's decrypt_length_header or decrypt_message, and its
\* input had a length the call takes.
Decrypted(p) ==
    Called(p, "decrypt_length_header") \/ Called(p, "decrypt_message")

Act50Answer(act, input) ==
    IF act.version # 0 THEN "Unknown handshake version number"
    ELSE IF ~from_slice(act.point).ok THEN "Invalid public key"
    ELSE IF ~act.tag[6] \/ "point_valid" \in Changes(input) \/ ~KnowsResponder
    THEN "Bad MAC"
    ELSE ""

\* C12: process_act_one_with_keys and process_act_two, given a 50-byte act,
\* answer 'Unknown handshake version number' if its version byte is not 0,
\* whatever its other bytes; otherwise 'Invalid public key' if its point
\* does not parse; otherwise 'Bad MAC' if its tag does not verify; and they
\* succeed exactly when none of the three is the case.
C12_Act50Errors ==
    \A p \in Peers :
        Called(p, "process_act_one_with_keys") \/ Called(p, "process_act_two") =>
            LET answer == Act50Answer(lastCall.consumed[1], lastCall.input) IN
            /\ ActLen(lastCall.consumed[1]) = 50
            /\ lastCall.err = answer
            /\ lastCall.ok <=> answer = ""

C12_Witness ==
    /\ Called("I", "process_act_two")
    /\ lastCall.input = "version+point+tag"
    /\ lastCall.err = "Unknown handshake version number"

\* What process_act_three must answer, told from the 66-byte act: its
\* version byte, whether the tag of its encrypted static key is the one made
\* with it, whether the 33 bytes under it are a point, and whether its
\* final tag is the one made with it.
Act66Answer(act) ==
    IF act.version # 0 THEN "Unknown handshake version number"
    ELSE IF ~act.c[6] THEN "Bad MAC"
    ELSE IF ~from_slice(act.c[5]).ok THEN "Bad node_id from peer"
    ELSE IF ~act.tag[6] THEN "Bad MAC"
    ELSE ""

\* C13: process_act_three, given a 66-byte act, answers 'Unknown handshake
\* version number' if its version byte is not 0; otherwise 'Bad MAC' if the
\* encrypted static key does not verify; otherwise 'Bad node_id from peer' if
\* the 33 decrypted bytes are no public key; otherwise 'Bad MAC' if the final
\* tag does not verify.  'Bad node_id from peer' is answered only for an
\* encrypted static key whose tag verified.
C13_Act66Errors ==
    \A p \in Peers :
        Called(p, "process_act_three") =>
            LET act == lastCall.consumed[1]
                answer == Act66Answer(act) IN
            /\ ActLen(act) = 66
            /\ lastCall.err = answer
            /\ lastCall.ok <=> answer = ""
            /\ lastCall.err = "Bad node_id from peer" => act.c[6] /\ act.c[3] = 1

C13_Witness ==
    /\ Called("R", "process_act_three")
    /\ lastCall.input = "bad_static+tag"
    /\ lastCall.err = "Bad node_id from peer"

ActProcessingOps ==
    {"process_act_one_with_keys", "process_act_two", "process_act_three"}

\* p makes a call of op in this step.
Calls(p, op) == hist'[p][op] = hist[p][op] + 1

\* C14, for one step: a call of process_act_one_with_keys, process_act_two
\* or process_act_three that does not succeed leaves no successor state and
\* no output act and returns no key; an encryptor enters Finished only by a
\* call of its own that succeeds; and no operation is applied to an
\* encryptor after its failed step.
C14_Step ==
    \A p \in Peers :
        /\ (\E op \in ActProcessingOps : Calls(p, op)) /\ ~lastCall'.ok =>
              /\ enc'[p].step = "Consumed"
              /\ enc'[p].noise_state = NoFinished
              /\ acts' = acts
              /\ lastCall'.emitted = <<>>
              /\ lastCall'.ret = Nil
        /\ enc[p].step # "Finished" /\ enc'[p].step = "Finished" =>
              /\ lastCall'.ok /\ lastCall'.who = p
              /\ lastCall'.op \in {"process_act_two", "process_act_three"}
        /\ enc[p].step = "Consumed" =>
              /\ enc'[p].step = "Consumed"
              /\ hist'[p] = hist[p]
              /\ (lastCall'.who = p =>
                    /\ lastCall.who = p
                    /\ lastCall'.op = lastCall.op
                    /\ lastCall'.input = lastCall.input)

\* C14: when process_act_one_with_keys, process_act_two or
\* process_act_three returns an error, no state advances: there is no
\* successor state and no output act, Finished is never reached through a
\* failed step, and nothing more can be done with the failed encryptor.
C14_FailedStepStops == [][C14_Step]_vars

C14_Witness ==
    /\ lastCall.who = "R" /\ lastCall.op = "process_act_three"
    /\ lastCall.err = "Bad MAC"
    /\ enc["R"].step = "Consumed"
    /\ enc["I"].step = "Finished"

\* C15: the responder is given a public key by a call of process_act_three
\* that succeeds and by no other handshake call: process_act_one_with_keys
\* returns none, and process_act_three returns none when it fails, also when
\* the encrypted static key verified and parsed and only the final tag
\* failed; the key it returns on success is the one the initiator sent.
C15_KeyOnlyFromActThree ==
    \A p \in Peers :
        lastCall.who = p
            /\ lastCall.op \in {"process_act_one_with_keys", "process_act_three"} =>
            /\ lastCall.ret # Nil <=> lastCall.op = "process_act_three" /\ lastCall.ok
            /\ lastCall.ret # Nil => lastCall.ret = from_slice(lastCall.consumed[1].c[5]).key

C15_Witness ==
    /\ lastCall.who = "R" /\ lastCall.op = "process_act_three"
    /\ lastCall.input = "tag"
    /\ lastCall.err = "Bad MAC"
    /\ lastCall.consumed[1].c[6]
    /\ from_slice(lastCall.consumed[1].c[5]).ok
    /\ lastCall.ret = Nil

\* The changes of an act that a single flipped bit can make: in the version
\* byte, in the point (leaving no point, or another point), in the encrypted
\* static key of act three or in a tag.
SingleFlips == {"version", "point", "point_valid", "tag"}

\* The error a flipped bit must bring.
FlipAnswer(op, input) ==
    CASE input = "version" -> "Unknown handshake version number"
      [] input = "point" /\ op # "process_act_three" -> "Invalid public key"
      [] OTHER -> "Bad MAC"

C17_OneActInOneActOut ==
    \A p \in Peers :
        /\ Called(p, "get_act_one") =>
              Len(lastCall.consumed) = 0 /\ Len(lastCall.emitted) = 1
        /\ (\E op \in ActProcessingOps : Called(p, op)) /\ lastCall.ok =>
              Len(lastCall.consumed) = 1 /\ Len(lastCall.emitted) = 1

\* C17, amended: get_act_one consumes no act and emits one;
\* process_act_one_with_keys and process_act_two consume exactly one act and
\* emit exactly one, the act the peer processes next; process_act_three
\* consumes exactly one act and emits none: it ends the handshake.
C17_OneActInAtMostOneOut ==
    \A p \in Peers :
        /\ Called(p, "get_act_one") =>
              /\ Len(lastCall.consumed) = 0
              /\ lastCall.emitted = acts.one /\ Len(acts.one) = 1
        /\ Called(p, "process_act_one_with_keys") /\ lastCall.ok =>
              /\ Len(lastCall.consumed) = 1
              /\ lastCall.emitted = acts.two /\ Len(acts.two) = 1
        /\ Called(p, "process_act_two") /\ lastCall.ok =>
              /\ Len(lastCall.consumed) = 1
              /\ lastCall.emitted = acts.three /\ Len(acts.three) = 1
        /\ Called(p, "process_act_three") /\ lastCall.ok =>
              /\ Len(lastCall.consumed) = 1
              /\ lastCall.consumed = acts.three
              /\ Len(lastCall.emitted) = 0

C17_Witness ==
    /\ Called("R", "process_act_three")
    /\ lastCall.ok
    /\ BothFinished
    /\ Len(lastCall.emitted) = 0

ErrorIdentifiers ==
    {"Unknown handshake version number", "Invalid public key", "Bad MAC",
     "Bad node_id from peer"}

\* C18: every call that returns a HandleError (the three calls that process
\* an act, decrypt_length_header, decrypt_message) returns it with the action
\* DisconnectPeer and no message to send; a call that succeeds or panics
\* returns no HandleError.
C18_ErrorsDisconnect ==
    /\ lastCall.ok \/ lastCall.panic => lastCall.action = NoAction
    /\ ~lastCall.ok /\ ~lastCall.panic =>
          /\ lastCall.action = DisconnectPeer
          /\ lastCall.err \in ErrorIdentifiers
          /\ lastCall.op \in ActProcessingOps
                                \cup {"decrypt_length_header", "decrypt_message"}

C18_Witness ==
    /\ lastCall.op = "process_act_three"
    /\ lastCall.err = "Bad node_id from peer"
    /\ lastCall.action = DisconnectPeer

\* The input of the last call has a length its operation does not take.
LengthViolated ==
    CASE lastCall.op \in {"process_act_one_with_keys", "process_act_two"} ->
            ActLen(lastCall.consumed[1]) # 50
      [] lastCall.op = "process_act_three" -> ActLen(lastCall.consumed[1]) # 66
      [] lastCall.op = "decrypt_length_header" -> CipherLen(lastCall.bytes) # 18
      [] lastCall.op = "encrypt_message" -> BytesLen(lastCall.bytes) > 65535
      [] lastCall.op = "decrypt_message" -> CipherLen(lastCall.bytes) > 65551
      [] OTHER -> FALSE

\* C19: a call panics when the length of its input is one it does not take
\* (an act of other than 50, or 66, bytes, a length header of other than 18
\* bytes, a plaintext of more than 65535 bytes, a ciphertext of more than
\* 65551 bytes), whatever else is wrong with the input; the call then
\* returns nothing, no HandleError either, performs no AEAD operation and no
\* rotation, and leaves keys and counters as they were.
C19_LengthViolationsPanic ==
    LengthViolated =>
          /\ lastCall.panic
          /\ ~lastCall.ok
          /\ lastCall.action = NoAction
          /\ lastCall.err \notin ErrorIdentifiers
          /\ lastCall.aead = <<>> /\ ~lastCall.rotated
          /\ lastCall.emitted = <<>>
          /\ IF lastCall.op \in ActProcessingOps
             THEN enc[lastCall.who].step = "Consumed"
             ELSE Now(lastCall.who) = lastCall.before

C19_Witness ==
    /\ lastCall.who = "R" /\ lastCall.op = "decrypt_message"
    /\ lastCall.input = "oversized"
    /\ lastCall.panic
    /\ Now("R").rn = 3

\* C20: the act that get_act_one and process_act_one_with_keys emit is 50
\* bytes with first byte 0, the act that process_act_two emits is 66 bytes
\* with first byte 0, and encrypt_message of a message of up to 65535 bytes
\* returns an 18-byte encrypted length header and then the message's length
\* plus 16 bytes of payload: the message's length plus 34 bytes.
C20_OutputSizes ==
    \A p \in Peers :
        /\ Called(p, "get_act_one")
                \/ (Called(p, "process_act_one_with_keys") /\ lastCall.ok) =>
              /\ Len(lastCall.emitted) = 1
              /\ ActLen(lastCall.emitted[1]) = 50
              /\ lastCall.emitted[1].version = 0
        /\ Called(p, "process_act_two") /\ lastCall.ok =>
              /\ Len(lastCall.emitted) = 1
              /\ ActLen(lastCall.emitted[1]) = 66
              /\ lastCall.emitted[1].version = 0
        /\ Called(p, "encrypt_message") =>
              /\ BytesLen(lastCall.bytes) \in 0..65535
              /\ Len(lastCall.ret) = 2
              /\ CipherLen(lastCall.ret[1]) = 18
              /\ CipherLen(lastCall.ret[2]) = BytesLen(lastCall.bytes) + 16
              /\ CipherLen(lastCall.ret[1]) + CipherLen(lastCall.ret[2])
                    = BytesLen(lastCall.bytes) + 34
              /\ slice_to_be16(lastCall.ret[1][5]) = BytesLen(lastCall.bytes)

C20_Witness ==
    /\ Called("I", "encrypt_message")
    /\ lastCall.bytes = Bytes(65535, 1)
    /\ CipherLen(lastCall.ret[1]) + CipherLen(lastCall.ret[2]) = 65569
    /\ hist["I"].sent = 3

\* The rotations a direction has made once its counter has stepped n times
\* from 0, if the counter is tested before the steps at which test holds.
RotationsAfter(n, period) == IF n = 0 THEN 0 ELSE (n - 1) \div period

\* The send triple of a peer that has encrypted sent messages since the
\* handshake left it at hs: two steps of sn a message, a rotation every 500.
SendAfter(hs, sent) ==
    LET g == RotationsAfter(sent, 500)
        keys == Generation(hs.sck, hs.sk, g)
    IN  <<keys[2], 2 * sent - 1000 * g, keys[1]>>

\* The receive triple of a peer that has decrypted dec_ops parts in order:
\* one step of rn a part, a rotation every 1000.
RecvAfter(hs, dec_ops) ==
    LET g == RotationsAfter(dec_ops, 1000)
        keys == Generation(hs.rck, hs.rk, g)
    IN  <<keys[2], dec_ops - 1000 * g, keys[1]>>

\* C21: with both peers Finished by one handshake and sending and receiving
\* in any interleaving, every frame part delivered unmodified and in order
\* decrypts, the header to the length of the message sent and the payload to
\* the message; a peer's send key, counter and chaining key are determined by
\* the number of messages it has sent alone, and its receive key, counter and
\* chaining key by the number of parts it has received alone.
C21_DuplexDelivers ==
    \A p \in Peers :
        /\ Called(p, "decrypt_length_header") =>
              /\ lastCall.ok
              /\ lastCall.ret = <<"u16", BytesLen(lastCall.part.msg)>>
        /\ Called(p, "decrypt_message") =>
              /\ lastCall.ok
              /\ lastCall.ret = lastCall.part.msg
        /\ enc[p].step = "Finished" =>
              /\ Send(Now(p)) = SendAfter(hist[p].handshake, hist[p].sent)
              /\ Recv(Now(p)) = RecvAfter(hist[p].handshake, hist[p].dec_ops)

C21_Witness ==
    /\ Called("I", "decrypt_message")
    /\ lastCall.ok
    /\ lastCall.ret = Bytes(5, 1)
    /\ hist["R"].sent = 1
    /\ hist["I"].sent = MaxDuplexSend
    /\ Now("I").sck # hist["I"].handshake.sck
    /\ Now("I").rck = hist["I"].handshake.rck

\* C22 as claimed: decrypt_message panics exactly when it is given more than
\* 65535 + 16 bytes; given fewer, down to none, it returns a plaintext 16
\* bytes shorter than its input, or the error Bad MAC.
C22_PanicsOnlyWhenTooLong ==
    lastCall.op = "decrypt_message" =>
        /\ lastCall.panic <=> CipherLen(lastCall.bytes) > 65535 + 16
        /\ ~lastCall.panic =>
              \/ lastCall.ok /\ BytesLen(lastCall.ret) = CipherLen(lastCall.bytes) - 16
              \/ ~lastCall.ok /\ lastCall.err = "Bad MAC"

\* C22, what the code does: decrypt_message panics exactly when it is given
\* more than 65535 + 16 bytes or fewer than 16; given 16 to 65551 bytes it
\* returns a plaintext 16 bytes shorter than its input, or the error Bad MAC.
C22_PanicsWhenTooLongOrTooShort ==
    lastCall.op = "decrypt_message" =>
        /\ lastCall.panic <=>
              \/ CipherLen(lastCall.bytes) > 65535 + 16
              \/ CipherLen(lastCall.bytes) < 16
        /\ ~lastCall.panic =>
              \/ lastCall.ok /\ BytesLen(lastCall.ret) = CipherLen(lastCall.bytes) - 16
              \/ ~lastCall.ok /\ lastCall.err = "Bad MAC"

C22_Witness ==
    /\ lastCall.who = "R" /\ lastCall.op = "decrypt_message"
    /\ lastCall.input = "truncated"
    /\ CipherLen(lastCall.bytes) = 15
    /\ lastCall.panic
    /\ Now("R") = lastCall.before

\* C23: while the decrypting calls that succeeded were alternately
\* decrypt_length_header and decrypt_message, the header first, rn is even
\* when decrypt_length_header is called in its turn and odd when
\* decrypt_message is called in its turn; so decrypt_message, which does not
\* rotate, is not called with rn = 1000, passes no nonce 1000, and decrypts
\* the sender's payload under the key the sender encrypted it with.
C23_ParityOfRn ==
    \A p \in Peers :
        (lastCall.who = p /\ lastCall.in_turn) =>
            /\ lastCall.op = "decrypt_length_header" => lastCall.before.rn % 2 = 0
            /\ lastCall.op = "decrypt_message" =>
                  /\ lastCall.before.rn % 2 = 1
                  /\ lastCall.before.rn # 1000
                  /\ ~lastCall.rotated
                  /\ \A i \in 1..Len(lastCall.aead) : lastCall.aead[i].n # 1000
                  /\ lastCall.input = "head" =>
                        /\ lastCall.ok
                        /\ lastCall.aead[1].key = lastCall.part.c[2]
                        /\ lastCall.aead[1].n = lastCall.part.c[3]

C23_Witness ==
    /\ lastCall.who = "R" /\ lastCall.op = "decrypt_message"
    /\ lastCall.in_turn
    /\ lastCall.input = "head"
    /\ lastCall.before.rn = 1
    /\ lastCall.before.rk # hist["R"].handshake.rk
    /\ hist["R"].dec_ops = 1002

\* C24: over all the encrypt_message calls made on one Finished encryptor, no
\* send key is passed to the AEAD with the same nonce twice: sk is replaced
\* by a key not used before at each rotation, the number of keys used is the
\* number of rotations plus one, and under one key every nonce is above all
\* nonces passed with that key before and below 1000.
C24_NoPairTwice ==
    \A p \in Peers :
        LET gens == hist[p].generations IN
        /\ Called(p, "encrypt_message") =>
              /\ lastCall.fresh
              /\ gens[Len(gens)].key = Now(p).sk
              /\ gens[Len(gens)].high = Now(p).sn - 1
        /\ hist[p].sent > 0 => Len(gens) = RotationsAfter(hist[p].sent, 500) + 1
        /\ \A i, j \in 1..Len(gens) : i # j => gens[i].key # gens[j].key
        /\ \A i \in 1..Len(gens) : gens[i].high \in 1..999

C24_Witness ==
    /\ Called("I", "encrypt_message")
    /\ lastCall.rotated
    /\ Len(hist["I"].generations) = 3
    /\ lastCall.aead[1].n = 0
    /\ hist["I"].generations[1].high = 999
    /\ lastCall.fresh

\* The last call was a decrypting call of p that returned the error Bad MAC.
FailedWithBadMac(p) ==
    /\ lastCall.who = p
    /\ lastCall.op \in {"decrypt_length_header", "decrypt_message"}
    /\ ~lastCall.ok
    /\ lastCall.err = "Bad MAC"

\* C25 as claimed: a decrypt_length_header or decrypt_message call that
\* returns Bad MAC leaves sk, sn, sck, rk, rn and rck as they were.
C25_FailureChangesNothing ==
    \A p \in Peers : FailedWithBadMac(p) => Now(p) = lastCall.before

\* C25, amended: a decrypt_length_header or decrypt_message call that
\* returns Bad MAC leaves sk, sn and sck as they were; decrypt_message leaves
\* rk, rn and rck as they were too, and so does decrypt_length_header called
\* with rn below 1000; decrypt_length_header called with rn at 1000 or above
\* leaves the rotation it made: (rck, rk) replaced by the HKDF of the two,
\* and rn at 0.
C25_FailureKeepsOnlyRotation ==
    \A p \in Peers :
        FailedWithBadMac(p) =>
            /\ Send(Now(p)) = Send(lastCall.before)
            /\ IF lastCall.op = "decrypt_length_header" /\ lastCall.before.rn >= 1000
               THEN /\ lastCall.rotated
                    /\ Now(p).rn = 0
                    /\ <<Now(p).rck, Now(p).rk>> =
                          hkdf_extract_expand(lastCall.before.rck, lastCall.before.rk)
               ELSE /\ ~lastCall.rotated
                    /\ Now(p) = lastCall.before

C25_Witness ==
    /\ FailedWithBadMac("R")
    /\ lastCall.op = "decrypt_message"
    /\ lastCall.input = "corrupt"
    /\ lastCall.before.rn = 999
    /\ Now("R") = lastCall.before

\* The kind of frame part an operation is for.
PartFor(op) == IF op = "decrypt_length_header" THEN "header" ELSE "payload"

\* What the operation returns for a part of the sender's.
SentValue(op, part) ==
    IF op = "decrypt_length_header" THEN <<"u16", BytesLen(part.msg)>> ELSE part.msg

\* A call of p has failed with Bad MAC on a corrupted part, and the step is
\* p's next call: the same operation, given the sender's next part, which
\* is of the operation's kind.
RetryAfterFailure(p) ==
    /\ FailedWithBadMac(p)
    /\ lastCall.input = "corrupt"
    /\ lastCall'.who = p
    /\ lastCall'.op = lastCall.op
    /\ lastCall'.input = "head"
    /\ lastCall'.part.kind = PartFor(lastCall.op)

C26_Step ==
    \A p \in Peers :
        RetryAfterFailure(p) =>
            /\ lastCall'.ok
            /\ lastCall'.ret = SentValue(lastCall.op, lastCall'.part)
            /\ lastCall'.before = enc[p].noise_state
            /\ ~lastCall'.rotated

\* C26: when decrypt_length_header or decrypt_message has failed with Bad MAC
\* on a corrupted frame part, the receiver's next call of the same operation,
\* given the sender's genuine next part, succeeds and returns what was sent:
\* the length for a header, the message for a payload.  This holds also when
\* the failed call was a decrypt_length_header at rn = 1000: the rotation it
\* made is the one the sender made, and the retry does not rotate again.
C26_RetrySucceeds == [][C26_Step]_vars

C26_Witness ==
    /\ Called("R", "decrypt_length_header")
    /\ lastCall.input = "head"
    /\ lastCall.ok
    /\ lastCall.before.rn = 0
    /\ ~lastCall.rotated
    /\ lastCall.before.rk # hist["R"].handshake.rk
    /\ hist["R"].dec_ops = 1001
    /\ Len(lastCall.aead) = 1 /\ lastCall.aead[1].ok

\* C27: if the initiator was constructed with a remote static key that is
\* not the responder's static public key, process_act_one_with_keys on the
\* act one it emitted fails with Bad MAC and consumes the responder's
\* encryptor; however act one is changed on the way the call fails, so the
\* responder never reaches PostActTwo or Finished, no act two is emitted,
\* and the initiator stays at PostActOne.
C27_WrongStaticStopsAtActOne ==
    ~KnowsResponder =>
        /\ enc["R"].step \in {"PreActOne", "Consumed"}
        /\ enc["I"].step \in {"PreActOne", "PostActOne"}
        /\ acts.two = <<>> /\ acts.three = <<>>
        /\ lastCall.op = "process_act_one_with_keys" =>
              /\ ~lastCall.ok
              /\ lastCall.emitted = <<>>
              /\ enc["R"].step = "Consumed"
              /\ (lastCall.input \in {"none", "point_valid", "tag", "point_valid+tag"}) =>
                    lastCall.err = "Bad MAC"

C27_Witness ==
    /\ ~KnowsResponder
    /\ lastCall.who = "R" /\ lastCall.op = "process_act_one_with_keys"
    /\ lastCall.input = "none"
    /\ lastCall.err = "Bad MAC"
    /\ lastCall.consumed = acts.one
    /\ enc["R"].step = "Consumed"

=============================================================================
